---------------------------- MODULE Spec2Model ----------------------------
(***************************************************************************)
(* The generational resource store of src/resources/resources.rs with its  *)
(* reference-counted handles (src/resources/mod.rs): slot arena, free      *)
(* list, path index, parent stack, pending-free channel, and the reload    *)
(* propagation along parent edges.  Store calls nest on one call stack     *)
(* (a constructor calls back into insert), which the variable `stack`      *)
(* models frame by frame.                                                  *)
(***************************************************************************)
EXTENDS Integers, Sequences, FiniteSets, TLC

\* ------------------------------------------------------------------ bounds
MaxSlots == 4
MaxArcs == 3
MaxDepth == 3
MaxHeld == 1
MaxClient == 2
MaxFailed == 1
MaxHooks == 3
MaxOps == 3
MaxEntries == 2     \* SlotMap: entries of values
MaxKeys == 4        \* SlotMap: insert calls
MaxAssets == 3      \* asset registry: assets built

\* Paths handed to the store.  "a2" is a second spelling of "a"; "gone" names
\* no file, so canonicalize fails on it.
Paths == {"a", "a2", "b", "c", "gone"}
CanonPaths == {"a", "b", "c"}
\* What a file holds is opaque to the store.  A load reads FirstContent; a
\* reload reads any of Contents: the same text again, or a changed one.
FirstContent == 1
Contents == {1, 2}

\* What the file at a canonical path may refer to: the paths the body of its
\* load or reload may ask the store for.  T::load is a function of the file it
\* reads, so a file that referred to itself, directly or through other files,
\* would make its load recurse without ever returning; the files that can be
\* loaded at all refer to each other without a cycle: "c" (a configuration)
\* to "b" and "a", "b" to "a", and "a" (a leaf, like a shader source) to none.
Requests(cp) ==
    CASE cp = "a" -> {}
      [] cp = "b" -> {"a", "a2", "gone"}
      [] OTHER -> {"a", "a2", "b", "gone"}

\* Option<T>: None is the empty sequence, Some(x) the one-element sequence.
None == <<>>
Some(x) == <<x>>
IsSome(o) == o # <<>>
Unwrap(o) == o[1]

\* Path::canonicalize: Some(canonical path), or None when it fails.
canonicalize(p) ==
    CASE p = "a2" -> Some("a")
      [] p = "gone" -> None
      [] OTHER -> Some(p)

\* struct AnyResourceId { idx, generation }
AnyResourceId(i, g) == [idx |-> i, generation |-> g]

\* ResourceEntry::Empty(Empty { generation, next })
Empty(g, n) ==
    [tag |-> "Empty", generation |-> g, next |-> n, parent |-> None,
     name |-> "", file |-> None, key |-> 0]

\* ResourceEntry::File(Filled { generation, parent, name, file, key })
Filled(g, par, nm, f, k) ==
    [tag |-> "File", generation |-> g, next |-> None, parent |-> par,
     name |-> nm, file |-> f, key |-> k]

\* A stored resource value: what it read from its file, and the handles
\* (ResourceId fields) it owns.
Value(c, hs) == [content |-> c, holds |-> hs]

VARIABLES
    names,          \* Resources.names: canonical path -> Option<AnyResourceId>
    res,            \* Resources.res: the slots, slot idx at position idx + 1
    first_empty,    \* Resources.first_empty: Option<u32>
    parent_stack,   \* Resources.parent_stack
    chan,           \* clean_sender -> clean_reciever: the pending-free channel
    arcs,           \* the Arc<ResourceIdData> allocated so far: id, strong count
                    \* (and the path whose load made it, and how many of its
                    \* strong handles have been dropped: 0, 1, or 2 for more)
    client,         \* handles owned by the code outside the store: arc -> count
    stack,          \* store calls in progress, innermost last
    ret,            \* what the store call that returned in the last step returned
    hooks,          \* reload_dependency hooks invoked by the current / last reload
    failed,         \* number of loads that have returned an error so far
    ops,            \* number of steps the world outside has taken so far
    fault,          \* "none", or the panic that stopped the program
    state,          \* App.state (src/app/mod.rs)
    should_run,     \* App.should_run
    event,          \* the event the application handled in the last step
    values,         \* SlotMap.values (src/util/slotmap.rs), index i at i + 1
    free,           \* SlotMap.free: Option<VersionKey>
    keys,           \* the keys SlotMap::insert has returned, with their values
    call,           \* the SlotMap call made in the last step and its result
    rendered,       \* the configs whose first frame has rendered without error
    app,            \* App of src/app.rs: ron, config, old_config, the error shown
    active,         \* ACTIVE_ASSETS (src/asset/mod.rs): path -> Vec<WeakAssetRef>
    rcs,            \* the Rc<RefCell<AssetData>> allocated so far: strong count, path
    load_stack      \* LOAD_STACK

vars == <<names, res, first_empty, parent_stack, chan, arcs, client, stack,
          ret, hooks, failed, ops, fault, state, should_run, event,
          values, free, keys, call, rendered, app, active, rcs, load_stack>>

\* The application of src/app/mod.rs and the stores are separate programs.
appvars == <<state, should_run, event, rendered, app>>
storevars == <<names, res, first_empty, parent_stack, chan, arcs, client, stack,
               ret, hooks, failed, ops>>
\* The SlotMap of src/util/slotmap.rs is a container of its own.
mapvars == <<values, free, keys, call>>
\* The asset registry of src/asset/mod.rs is thread-local state of its own.
assetvars == <<active, rcs, load_stack>>

\* The mutable world a store call works on, as one record.
World ==
    [names |-> names, res |-> res, first_empty |-> first_empty,
     parent_stack |-> parent_stack, chan |-> chan, arcs |-> arcs,
     fault |-> fault]

Install(W) ==
    /\ names' = W.names
    /\ res' = W.res
    /\ first_empty' = W.first_empty
    /\ parent_stack' = W.parent_stack
    /\ chan' = W.chan
    /\ arcs' = W.arcs
    /\ fault' = W.fault

Panic(W, what) == [W EXCEPT !.fault = what]

\* res.get(idx as usize): Some(entry) when idx is in range.
Entry(W, i) == IF i >= 0 /\ i < Len(W.res) THEN Some(W.res[i + 1]) ELSE None

\* The last dropped handle empties the slot on the spot.
DropHandleFrees(W, k) ==
    LET n == W.arcs[k].strong - 1
        id == W.arcs[k].id
    IN  IF n > 0
        THEN [W EXCEPT !.arcs[k].strong = n,
                       !.arcs[k].drops = IF @ < 2 THEN @ + 1 ELSE @]
        ELSE [W EXCEPT !.arcs[k].strong = n,
                       !.arcs[k].drops = IF @ < 2 THEN @ + 1 ELSE @,
                       !.names[W.arcs[k].path] = None,
                       !.res[id.idx + 1] = Empty(id.generation, W.first_empty),
                       !.first_empty = Some(id.idx)]

\* Every dropped handle sends the id, not only the last one.
DropHandleAlwaysSends(W, k) ==
    [W EXCEPT !.arcs[k].strong = @ - 1,
              !.arcs[k].drops = IF @ < 2 THEN @ + 1 ELSE @,
              !.chan = Append(@, W.arcs[k].id)]

\* impl Drop for ResourceIdData, behind the Arc: dropping a strong handle
\* lowers the count; the last one sends the id on the channel.
DropHandle(W, k) ==
    LET n == W.arcs[k].strong - 1 IN
    [W EXCEPT !.arcs[k].strong = n,
              !.arcs[k].drops = IF @ < 2 THEN @ + 1 ELSE @,
              !.chan = IF n = 0 THEN Append(@, W.arcs[k].id) ELSE @]

RECURSIVE DropHandles(_, _)
DropHandles(W, hs) ==
    IF hs = <<>> THEN W ELSE DropHandles(DropHandle(W, Head(hs)), Tail(hs))

\* Dropping an Option<Box<dyn DynResource>> drops the handles the value owns.
DropFile(W, f) == IF IsSome(f) THEN DropHandles(W, Unwrap(f).holds) ELSE W

\* Weak::upgrade on Filled.key.
Upgrade(W, k) == IF W.arcs[k].strong > 0 THEN Some(k) ELSE None

\* A pass that handles one notification and stops (if for while).
cleanOne(W) ==
    IF W.chan = <<>> THEN W
    ELSE
      LET id == Head(W.chan)
          W1 == [W EXCEPT !.chan = Tail(@)]
          e == Entry(W1, id.idx)
      IN  IF IsSome(e) /\ Unwrap(e).tag = "File"
             /\ Unwrap(e).generation = id.generation
          THEN DropFile([W1 EXCEPT
                           !.names[Unwrap(e).name] = None,
                           !.res[id.idx + 1] = Empty(id.generation, W1.first_empty),
                           !.first_empty = Some(id.idx)],
                        Unwrap(e).file)
          ELSE W1

\* A pass that empties every Filled slot, whatever the channel holds.
cleanSweep(W) ==
    [W EXCEPT !.chan = <<>>,
              !.names = [p \in CanonPaths |-> None],
              !.res = [i \in 1..Len(W.res) |->
                         IF W.res[i].tag = "File"
                         THEN Empty(W.res[i].generation, None) ELSE W.res[i]]]

\* A pass that receives the notifications and frees nothing.
cleanSkips(W) == [W EXCEPT !.chan = <<>>]

\* Resources::clean
RECURSIVE clean(_)
clean(W) ==
    IF W.chan = <<>> THEN W
    ELSE
      LET id == Head(W.chan)
          W1 == [W EXCEPT !.chan = Tail(@)]
          e == Entry(W1, id.idx)
      IN  IF IsSome(e) /\ Unwrap(e).tag = "File"
          THEN IF Unwrap(e).generation # id.generation
               THEN W1
               ELSE LET W2 == [W1 EXCEPT
                                 !.names[Unwrap(e).name] = None,
                                 !.res[id.idx + 1] = Empty(id.generation, W1.first_empty),
                                 !.first_empty = Some(id.idx)]
                    IN  clean(DropFile(W2, Unwrap(e).file))
          ELSE clean(W1)

\* Resources::get: "None", the value, or "panic" (unwrap of a taken file).
get(W, id) ==
    LET e == Entry(W, id.idx) IN
    IF ~IsSome(e) \/ Unwrap(e).tag # "File" THEN [r |-> "None", v |-> Value(0, <<>>)]
    ELSE IF Unwrap(e).generation # id.generation THEN [r |-> "None", v |-> Value(0, <<>>)]
    ELSE IF ~IsSome(Unwrap(e).file) THEN [r |-> "panic", v |-> Value(0, <<>>)]
    ELSE [r |-> "Some", v |-> Unwrap(Unwrap(e).file)]


\* ------------------------------------------------------------ insert_res
\* The part of Resources::insert_res that runs before the constructor:
\* clean, canonicalize, the dedup lookup, the slot allocation, File::open and
\* the push on parent_stack.  out is "Err" (path or open error), "Hit" (dedup,
\* arc k returned), "Construct" (T::load is to run for slot id) or "Panic".
NoId == AnyResourceId(0 - 1, 0)

Outcome(W, o, k, id) == [W |-> W, out |-> o, k |-> k, id |-> id]

\* u32::wrapping_add(g, 1).  A u32 is kept as its 32 bits read in two's
\* complement, so 0 - 1 stands for u32::MAX = 2^32 - 1 and the successor of
\* 2^31 - 1 is 0 - 2^31; equality of u32 values is equality of these integers.
wrapping_add(g) == IF g = 2147483647 THEN (0 - 2147483647) - 1 ELSE g + 1

\* Allocate from the end of the arena, whatever the free list holds.
AllocateAppends(W) ==
    Outcome([W EXCEPT !.res = Append(@, Empty(0, None))], "Construct", 0,
            AnyResourceId(Len(W.res), 0))

\* Allocate with the slot's generation reused as it is.
AllocateSameGeneration(W) ==
    IF IsSome(W.first_empty)
    THEN LET x == Unwrap(W.first_empty)
             e == W.res[x + 1]
         IN  Outcome([W EXCEPT !.first_empty = e.next], "Construct", 0,
                     AnyResourceId(x, e.generation))
    ELSE Outcome([W EXCEPT !.res = Append(@, Empty(0, None))], "Construct", 0,
                 AnyResourceId(Len(W.res), 0))

\* Allocate that leaves the slot it takes at the head of the free list.
AllocateKeepsHead(W) ==
    IF IsSome(W.first_empty)
    THEN LET x == Unwrap(W.first_empty)
             e == W.res[x + 1]
         IN  Outcome(W, "Construct", 0, AnyResourceId(x, wrapping_add(e.generation)))
    ELSE Outcome([W EXCEPT !.res = Append(@, Empty(0, None))], "Construct", 0,
                 AnyResourceId(Len(W.res), 0))

\* lines 160-173: take the head of the free list, or push a new slot.
Allocate(W) ==
    IF IsSome(W.first_empty)
    THEN LET x == Unwrap(W.first_empty)
             e == W.res[x + 1]
         IN  IF e.tag # "Empty"
             THEN Outcome(Panic(W, "as_empty"), "Panic", 0, NoId)
             ELSE Outcome([W EXCEPT !.first_empty = e.next], "Construct", 0,
                          AnyResourceId(x, wrapping_add(e.generation)))
    ELSE Outcome([W EXCEPT !.res = Append(@, Empty(0, None))], "Construct", 0,
                 AnyResourceId(Len(W.res), 0))

\* A dedup hit that rebinds the parent edge to the resource now loading.
PresentRebinds(W, x) ==
    LET e == W.res[x.idx + 1]
        par == IF W.parent_stack = <<>> THEN None
               ELSE Some(W.parent_stack[Len(W.parent_stack)])
    IN  Outcome([W EXCEPT !.arcs[e.key].strong = @ + 1,
                          !.res[x.idx + 1].parent = par], "Hit", e.key, x)

\* lines 146-158: the path is indexed; hand out another strong handle.
Present(W, x) ==
    LET e == W.res[x.idx + 1] IN
    IF e.tag # "File" THEN Outcome(Panic(W, "as_filled"), "Panic", 0, NoId)
    ELSE IF ~IsSome(Upgrade(W, e.key))
         THEN Outcome(Panic(W, "upgrade"), "Panic", 0, NoId)
         ELSE Outcome([W EXCEPT !.arcs[e.key].strong = @ + 1], "Hit", e.key, x)

\* The path is indexed as soon as its slot is allocated, before T::load runs.
PushParentIndexed(W, name, id) ==
    [W EXCEPT !.parent_stack = Append(@, id), !.names[name] = Some(id)]

\* line 177: self.parent_stack.push(AnyResourceId { idx, generation })
PushParent(W, name, id) == [W EXCEPT !.parent_stack = Append(@, id)]

\* A lookup that never finds the path.
LookupMisses(W, name) == None

\* line 147: self.names.get(&name)
Lookup(W, name) == W.names[name]

insert_res(W, base_name, openOk) ==
    LET W0 == clean(W)
        name == canonicalize(base_name)
    IN  IF ~IsSome(name) THEN Outcome(W0, "Err", 0, NoId)
        ELSE IF IsSome(Lookup(W0, Unwrap(name)))
             THEN Present(W0, Unwrap(Lookup(W0, Unwrap(name))))
             ELSE LET a == Allocate(W0) IN
                  IF a.out = "Panic" THEN a
                  ELSE IF ~openOk THEN Outcome(a.W, "Err", 0, NoId)
                       ELSE Outcome(PushParent(a.W, Unwrap(name), a.id),
                                    "Construct", 0, a.id)

\* ------------------------------------------------------------- call stack
Frame(kind, path, id, taken, st0, lv, pre) ==
    [kind |-> kind, path |-> path, id |-> id, held |-> <<>>, taken |-> taken,
     cur |-> NoId, changed |-> NoId, stack0 |-> st0, live |-> lv, pre |-> pre]

Top == stack[Len(stack)]
Callers == SubSeq(stack, 1, Len(stack) - 1)

\* T::load or DynResource::reload is running in the innermost frame.
InBody == stack # <<>> /\ Top.kind \in {"load", "reload"}

NoRet ==
    [op |-> "none", path |-> "", result |-> "", arc |-> 0, id |-> NoId,
     built |-> FALSE, live |-> FALSE, stack0 |-> <<>>, pre |-> None,
     parent0 |-> None]

NoValue == Value(0, <<>>)

\* The caller receives a handle: the world outside owns it, or the body that
\* asked for it keeps it in a local.
GiveTo(st, k) ==
    IF st = <<>>
    THEN /\ client' = [client EXCEPT ![k] = @ + 1]
         /\ stack' = st
    ELSE /\ client' = client
         /\ stack' = [st EXCEPT ![Len(st)].held = Append(@, k)]

Range(q) == {q[i] : i \in 1..Len(q)}

\* The handles in use: those the world outside owns, those the running bodies
\* hold in locals or in a value taken out of its slot, and those owned by the
\* stored value of a resource whose handle is in use.
Roots ==
    {k \in 1..Len(arcs) : client[k] > 0}
        \cup UNION {Range(stack[j].held) : j \in 1..Len(stack)}
        \cup UNION {IF IsSome(stack[j].taken) THEN Range(Unwrap(stack[j].taken).holds)
                    ELSE {} : j \in 1..Len(stack)}

HeldBy(k) ==
    LET e == res[arcs[k].id.idx + 1] IN
    IF e.tag = "File" /\ e.key = k /\ IsSome(e.file) THEN Range(Unwrap(e.file).holds)
    ELSE {}

RECURSIVE Closure(_, _)
Closure(S, fuel) ==
    IF fuel = 0 THEN S ELSE Closure(S \cup UNION {HeldBy(k) : k \in S}, fuel - 1)

InUse == Closure(Roots, Len(arcs))

\* The canonical path is indexed by a resource whose handle is in use.
Live(cp) ==
    /\ IsSome(names[cp])
    /\ LET e == res[Unwrap(names[cp]).idx + 1] IN e.tag = "File" /\ e.key \in InUse

ParentOf(W, cp) ==
    IF IsSome(W.names[cp]) THEN W.res[Unwrap(W.names[cp]).idx + 1].parent ELSE None

CanonOr(p) == IF IsSome(canonicalize(p)) THEN Unwrap(canonicalize(p)) ELSE ""

\* Number of constructors running: each will need an Arc when it succeeds.
RECURSIVE Building(_)
Building(st) ==
    IF st = <<>> THEN 0
    ELSE (IF Head(st).kind = "load" THEN 1 ELSE 0) + Building(Tail(st))

\* A step of the world outside the store (empty call stack) is counted; a step
\* inside a store call is not.
Count == ops' = IF stack = <<>> THEN ops + 1 ELSE ops
Budget == stack = <<>> => ops < MaxOps

\* One call of Resources::insert up to the call of T::load or the return.
Insert(p, openOk) ==
    /\ fault = "none"
    /\ UNCHANGED <<appvars, mapvars, assetvars>>
    /\ Budget /\ Count
    /\ LET r == insert_res(World, p, openOk)
           cp == CanonOr(p)
           lv == cp # "" /\ Live(cp)
       IN  /\ Len(r.W.res) <= MaxSlots
           /\ Install(r.W)
           /\ hooks' = <<>>
           /\ CASE r.out = "Panic" ->
                     /\ UNCHANGED <<client, stack, failed>>
                     /\ ret' = NoRet
                [] r.out = "Err" ->
                     /\ failed < MaxFailed
                     /\ failed' = failed + 1
                     /\ UNCHANGED <<client, stack>>
                     /\ ret' = [NoRet EXCEPT !.op = "load", !.path = cp,
                                  !.result = "Err", !.live = lv,
                                  !.stack0 = parent_stack]
                [] r.out = "Hit" ->
                     /\ stack = <<>> => client[r.k] < MaxClient
                     /\ GiveTo(stack, r.k)
                     /\ UNCHANGED failed
                     /\ ret' = [NoRet EXCEPT !.op = "load", !.path = cp,
                                  !.result = "Ok", !.arc = r.k, !.id = r.id,
                                  !.live = lv, !.stack0 = parent_stack,
                                  !.parent0 = ParentOf(World, cp)]
                [] r.out = "Construct" ->
                     /\ Len(stack) < MaxDepth
                     /\ Len(arcs) + Building(stack) < MaxArcs
                     /\ stack' = Append(stack,
                            Frame("load", cp, r.id, None, parent_stack, lv, None))
                     /\ UNCHANGED <<client, failed>>
                     /\ ret' = NoRet

\* Resources::insert called by the world outside (empty call stack) or by the
\* body of the innermost load / reload.
InsertRes(p, openOk) ==
    /\ stack = <<>> \/ (InBody /\ Len(Top.held) < MaxHeld /\ p \in Requests(Top.path))
    /\ Insert(p, openOk)

\* The constructor that is running asks for the path it is constructing.
RecursiveInsert(openOk) ==
    /\ stack # <<>> /\ Top.kind = "load"
    /\ Len(Top.held) < MaxHeld
    /\ Insert(Top.path, openOk)

\* T::load returned Ok(res): lines 180-201.
ConstructOk ==
    /\ fault = "none"
    /\ UNCHANGED <<appvars, mapvars, assetvars>>
    /\ stack # <<>> /\ Top.kind = "load"
    /\ LET f == Top
           k == Len(arcs) + 1
           ps == SubSeq(parent_stack, 1, Len(parent_stack) - 1)
           par == IF ps = <<>> THEN None ELSE Some(ps[Len(ps)])
           W1 == [World EXCEPT
                    !.parent_stack = ps,
                    !.arcs = Append(@, [id |-> f.id, strong |-> 1, path |-> f.path,
                                        drops |-> 0]),
                    !.res[f.id.idx + 1] =
                        Filled(f.id.generation, par, f.path,
                               Some(Value(FirstContent, f.held)), k),
                    !.names[f.path] = Some(f.id)]
           \* the entry overwritten by the assignment is dropped
           W2 == DropFile(W1, World.res[f.id.idx + 1].file)
       IN  /\ Install(W2)
           /\ GiveTo(Callers, k)
           /\ ret' = [NoRet EXCEPT !.op = "load", !.path = f.path, !.result = "Ok",
                        !.arc = k, !.id = f.id, !.built = TRUE, !.live = f.live,
                        !.stack0 = f.stack0]
           /\ UNCHANGED <<hooks, failed, ops>>

\* T::load returned Err: the ? on line 179 leaves insert_res at once; the
\* locals of the constructor are dropped.
ConstructErr ==
    /\ fault = "none"
    /\ UNCHANGED <<appvars, mapvars, assetvars>>
    /\ stack # <<>> /\ Top.kind = "load"
    /\ failed < MaxFailed
    /\ failed' = failed + 1
    /\ Install(DropHandles(World, Top.held))
    /\ stack' = Callers
    /\ ret' = [NoRet EXCEPT !.op = "load", !.path = Top.path, !.result = "Err",
                 !.id = Top.id, !.built = TRUE, !.live = Top.live,
                 !.stack0 = Top.stack0]
    /\ UNCHANGED <<client, hooks, ops>>

\* The running body drops a handle it got from a nested load.
BodyDrop(i) ==
    /\ fault = "none"
    /\ UNCHANGED <<appvars, mapvars, assetvars>>
    /\ InBody
    /\ i \in 1..Len(Top.held)
    /\ Install(DropHandle(World, Top.held[i]))
    /\ stack' = [stack EXCEPT ![Len(stack)].held =
                    SubSeq(@, 1, i - 1) \o SubSeq(@, i + 1, Len(@))]
    /\ ret' = NoRet
    /\ UNCHANGED <<client, hooks, failed, ops>>

\* ----------------------------------------------------------------- reload
RetReload(cp, result, id, built, pre, lv) ==
    [NoRet EXCEPT !.op = "reload", !.path = cp, !.result = result, !.id = id,
                  !.built = built, !.pre = pre, !.live = lv]

\* Resources::reload up to the call of DynResource::reload (lines 204-220).
Reload(p, openOk) ==
    /\ fault = "none"
    /\ UNCHANGED <<appvars, mapvars, assetvars>>
    /\ stack = <<>>
    /\ Budget /\ Count
    /\ hooks' = <<>>
    /\ UNCHANGED <<client, failed>>
    /\ LET path == canonicalize(p) IN
       IF ~IsSome(path)
       THEN /\ Install(World)
            /\ stack' = stack
            /\ ret' = RetReload("", "OkFalse", NoId, FALSE, None, FALSE)
       ELSE IF ~IsSome(names[Unwrap(path)])
            THEN /\ Install(clean(World))
                 /\ stack' = stack
                 /\ ret' = RetReload(Unwrap(path), "OkFalse", NoId, FALSE, None, FALSE)
            ELSE LET x == Unwrap(names[Unwrap(path)])
                     e == res[x.idx + 1]
                 IN  IF e.tag # "File" \/ ~IsSome(e.file)
                     THEN /\ Install(Panic(World, "reload_take"))
                          /\ stack' = stack
                          /\ ret' = NoRet
                     ELSE LET W1 == [World EXCEPT !.res[x.idx + 1].file = None] IN
                          IF ~openOk
                          THEN \* File::open(path)? returns with f dropped
                               /\ Install(DropFile(W1, e.file))
                               /\ stack' = stack
                               /\ ret' = RetReload(Unwrap(path), "Err", x, FALSE, e.file,
                                                Live(Unwrap(path)))
                          ELSE /\ Install(W1)
                               /\ stack' = <<Frame("reload", Unwrap(path), x, e.file,
                                                   parent_stack, Live(Unwrap(path)),
                                                   e.file)>>
                               /\ ret' = NoRet

\* The value taken out of the slot is never put back.
RestoreNothing(W, id, f) == W

\* lines 221-222: entry.file = Some(f)
Restore(W, id, f) == [W EXCEPT !.res[id.idx + 1].file = Some(f)]

\* One call of Resources::reload_dependency(id, reloaded), lines 240-245, from
\* world W: the entry must be Filled and hold its value; the hook runs on the
\* value taken out, which then goes back.  Gives the world and the entry's
\* parent.
Notify(W, id) ==
    LET e == W.res[id.idx + 1] IN
    IF e.tag # "File" THEN [W |-> Panic(W, "dependency_as_filled"), parent |-> None]
    ELSE IF ~IsSome(e.file) THEN [W |-> Panic(W, "dependency_take"), parent |-> None]
    ELSE [W |-> W, parent |-> e.parent]

\* The walk goes on after a hook that failed.
ContinuesAfterError(r, parent) == r # "false" /\ IsSome(parent)

\* The walk goes on whatever the hook answered.
ContinuesAlways(r, parent) == IsSome(parent)

\* lines 246-250: the walk goes on to the parent only after Ok(true).
Continues(r, parent) == r = "true" /\ IsSome(parent)

\* The tail of Resources::reload once propagation is over: an error leaves by
\* ?, otherwise clean() runs and Ok(true) is returned.
EndReload(W, f, r) ==
    /\ stack' = <<>>
    /\ IF r = "err"
       THEN /\ Install(W)
            /\ ret' = RetReload(f.path, "Err", f.id, FALSE, f.pre, f.live)
       ELSE /\ Install(clean(W))
            /\ ret' = RetReload(f.path, "OkTrue", f.id, FALSE, f.pre, f.live)

\* Lines 221-226 after DynResource::reload returned Ok: the rebuilt value
\* replaces the old one (whose handles are dropped), goes back into the slot,
\* and propagation starts at the entry's parent.
ReconstructOk(c) ==
    /\ fault = "none"
    /\ UNCHANGED <<appvars, mapvars, assetvars>>
    /\ stack # <<>> /\ Top.kind = "reload"
    /\ UNCHANGED <<client, hooks, failed, ops>>
    /\ LET f == Top
           W1 == DropFile(World, f.taken)
           e == W1.res[f.id.idx + 1]
       IN  IF e.tag # "File"
           THEN /\ Install(Panic(W1, "reload_as_filled"))
                /\ UNCHANGED stack
                /\ ret' = NoRet
           ELSE LET W2 == Restore(W1, f.id, Value(c, f.held)) IN
                IF IsSome(e.parent)
                THEN /\ Install(W2)
                     /\ stack' = <<[f EXCEPT !.kind = "notify", !.held = <<>>,
                                      !.taken = None, !.cur = Unwrap(e.parent),
                                      !.changed = f.id]>>
                     /\ ret' = NoRet
                ELSE EndReload(W2, f, "false")

\* The parent's hook runs once before the reconstruct error is returned.
ReconstructErrNotifies ==
    /\ fault = "none"
    /\ UNCHANGED <<appvars, mapvars, assetvars>>
    /\ stack # <<>> /\ Top.kind = "reload"
    /\ UNCHANGED <<client, failed, ops>>
    /\ LET f == Top
           W1 == DropHandles(World, f.held)
           e == W1.res[f.id.idx + 1]
       IN  /\ e.tag = "File"
           /\ Install(Restore(W1, f.id, Unwrap(f.taken)))
           /\ stack' = <<>>
           /\ hooks' = IF IsSome(e.parent)
                       THEN Append(hooks, [target |-> Unwrap(e.parent),
                                           changed |-> f.id, result |-> "false",
                                           parent |-> None, stale |-> FALSE])
                       ELSE hooks
           /\ ret' = RetReload(f.path, "Err", f.id, TRUE, f.pre, f.live)

\* DynResource::reload returned Err: its locals are dropped, the untouched old
\* value goes back into the slot and error? returns (lines 221-223).
ReconstructErr ==
    /\ fault = "none"
    /\ UNCHANGED <<appvars, mapvars, assetvars>>
    /\ stack # <<>> /\ Top.kind = "reload"
    /\ UNCHANGED <<client, hooks, failed, ops>>
    /\ LET f == Top
           W1 == DropHandles(World, f.held)
           e == W1.res[f.id.idx + 1]
       IN  IF e.tag # "File"
           THEN /\ Install(Panic(W1, "reload_as_filled"))
                /\ UNCHANGED stack
                /\ ret' = NoRet
           ELSE /\ Install(Restore(W1, f.id, Unwrap(f.taken)))
                /\ stack' = <<>>
                /\ ret' = RetReload(f.path, "Err", f.id, TRUE, f.pre, f.live)

\* Resources::reload_dependency: one ancestor's hook runs and answers r.
ReloadDependency(r) ==
    /\ fault = "none"
    /\ UNCHANGED <<appvars, mapvars, assetvars>>
    /\ stack # <<>> /\ Top.kind = "notify"
    /\ Len(hooks) < MaxHooks
    /\ UNCHANGED <<client, failed, ops>>
    /\ LET f == Top
           n == Notify(World, f.cur)
       IN  IF n.W.fault # "none"
           THEN /\ Install(n.W)
                /\ UNCHANGED <<stack, hooks>>
                /\ ret' = NoRet
           ELSE /\ hooks' = Append(hooks, [target |-> f.cur, changed |-> f.changed,
                                           result |-> r, parent |-> n.parent,
                                           stale |-> res[f.cur.idx + 1].generation
                                                        # f.cur.generation])
                /\ IF Continues(r, n.parent)
                   THEN /\ Install(n.W)
                        /\ stack' = <<[f EXCEPT !.cur = Unwrap(n.parent),
                                         !.changed = f.cur]>>
                        /\ ret' = NoRet
                   ELSE EndReload(n.W, f, r)

\* ------------------------------------------------- the world outside
\* The owner of a handle drops it.
ClientDrop(k) ==
    /\ fault = "none"
    /\ UNCHANGED <<appvars, mapvars, assetvars>>
    /\ stack = <<>>
    /\ k \in 1..Len(arcs)
    /\ client[k] > 0
    /\ client' = [client EXCEPT ![k] = @ - 1]
    /\ Install(DropHandle(World, k))
    /\ ret' = NoRet
    /\ hooks' = <<>>
    /\ Budget /\ Count
    /\ UNCHANGED <<stack, failed>>

\* impl Clone for ResourceId
ClientClone(k) ==
    /\ fault = "none"
    /\ UNCHANGED <<appvars, mapvars, assetvars>>
    /\ stack = <<>>
    /\ k \in 1..Len(arcs)
    /\ client[k] > 0 /\ client[k] < MaxClient
    /\ client' = [client EXCEPT ![k] = @ + 1]
    /\ Install([World EXCEPT !.arcs[k].strong = @ + 1])
    /\ ret' = NoRet
    /\ hooks' = <<>>
    /\ Budget /\ Count
    /\ UNCHANGED <<stack, failed>>

\* Resources::new; nothing has been loaded.
StoreInit ==
    /\ names = [p \in CanonPaths |-> None]
    /\ res = <<>>
    /\ first_empty = None
    /\ parent_stack = <<>>
    /\ chan = <<>>
    /\ arcs = <<>>
    /\ client = [k \in 1..(MaxArcs + 1) |-> 0]
    /\ stack = <<>>
    /\ ret = NoRet
    /\ hooks = <<>>
    /\ failed = 0
    /\ ops = 0
    /\ fault = "none"

\* state.take() leaves State::NotLoaded { error: String::new() } behind.
Taken == [tag |-> "NotLoaded", old_config |-> None, config |-> 0, kind |-> "",
          error |-> ""]
NoEvent == [kind |-> "", load |-> "", before |-> Taken]

\* No application runs beside the store.
NoApp == [ron |-> FALSE, config |-> None, old_config |-> None, error |-> None]
AppIdle ==
    /\ state = Taken /\ should_run = TRUE /\ event = NoEvent /\ rendered = {}
    /\ app = NoApp

\* SlotMap::new, and no call made yet.
NoCall == [op |-> "none", key |-> [idx |-> 0, version |-> 0], value |-> 0,
           result |-> ""]
MapNew == values = <<>> /\ free = None /\ keys = <<>> /\ call = NoCall

\* The thread-locals of src/asset/mod.rs before any asset is built.
AssetsNew == active = [p \in {} |-> <<>>] /\ rcs = <<>> /\ load_stack = <<>>

Init == StoreInit /\ AppIdle /\ MapNew /\ AssetsNew

Next ==
    \/ \E p \in Paths, openOk \in BOOLEAN : InsertRes(p, openOk)
    \/ ConstructOk
    \/ ConstructErr
    \/ \E i \in 1..MaxHeld : BodyDrop(i)
    \/ \E p \in Paths, openOk \in BOOLEAN : Reload(p, openOk)
    \/ \E c \in Contents : ReconstructOk(c)
    \/ ReconstructErr
    \/ \E r \in {"true", "false", "err"} : ReloadDependency(r)
    \/ \E k \in 1..MaxArcs : ClientDrop(k)
    \/ \E k \in 1..MaxArcs : ClientClone(k)

Spec == Init /\ [][Next]_vars

\* The store with files that refer to themselves.
RecursionNext ==
    \/ Next
    \/ \E openOk \in BOOLEAN : RecursiveInsert(openOk)

RecursionSpec == Init /\ [][RecursionNext]_vars

\* ------------------------------------------------ the store near the wrap
\* The store after slot 0 has been filled and freed 2^32 times: its first
\* occupant had generation 0, its last one u32::MAX, and it is the free list.
\* Of the handles made so far, arcs keeps the first occupant's.
WrapInit ==
    /\ names = [p \in CanonPaths |-> None]
    /\ res = <<Empty(0 - 1, None)>>
    /\ first_empty = Some(0)
    /\ parent_stack = <<>>
    /\ chan = <<>>
    /\ arcs = <<[id |-> AnyResourceId(0, 0), strong |-> 0, path |-> "a",
                 drops |-> 1]>>
    /\ client = [k \in 1..(MaxArcs + 1) |-> 0]
    /\ stack = <<>>
    /\ ret = NoRet
    /\ hooks = <<>>
    /\ failed = 0
    /\ ops = 0
    /\ fault = "none"
    /\ AppIdle /\ MapNew /\ AssetsNew

WrapSpec == WrapInit /\ [][Next]_vars

\* ------------------------------------------- the store with explicit removal
\* src/app/resource.rs: the same arena with Copy handles and no reference
\* counts; a slot is freed by Resources::remove_any.  Here arcs lists the
\* handles handed out (the caller may keep and copy each of them for ever).

\* A removal that does not compare generations.
remove_anyUnchecked(W, id) ==
    LET e == Entry(W, id.idx) IN
    IF IsSome(e) /\ Unwrap(e).tag = "File"
    THEN [W EXCEPT !.names[Unwrap(e).name] = None,
                   !.res[id.idx + 1] = Empty(id.generation, W.first_empty),
                   !.first_empty = Some(id.idx)]
    ELSE W

\* Resources::remove_any
remove_any(W, id) ==
    LET e == Entry(W, id.idx) IN
    IF IsSome(e) /\ Unwrap(e).tag = "File"
    THEN IF Unwrap(e).generation # id.generation
         THEN W
         ELSE [W EXCEPT !.names[Unwrap(e).name] = None,
                        !.res[id.idx + 1] = Empty(id.generation, W.first_empty),
                        !.first_empty = Some(id.idx)]
    ELSE W

\* Resources::insert of src/app/resource.rs for a file that refers to no other
\* file: outcome is "ok", "open" (File::open fails) or "ctor" (T::load fails).
AppInsert(p, outcome) ==
    /\ fault = "none"
    /\ UNCHANGED <<appvars, mapvars, assetvars>>
    /\ UNCHANGED <<chan, client, stack, hooks, ops>>
    /\ LET name == canonicalize(p)
           cp == CanonOr(p)
       IN  IF ~IsSome(name)
           THEN /\ outcome = "ok"
                /\ UNCHANGED <<names, res, first_empty, parent_stack, arcs, fault, failed>>
                /\ ret' = [NoRet EXCEPT !.op = "load", !.result = "Err"]
           ELSE IF IsSome(Lookup(World, cp))
           THEN /\ outcome = "ok"
                /\ UNCHANGED <<names, res, first_empty, parent_stack, arcs, fault, failed>>
                /\ ret' = [NoRet EXCEPT !.op = "load", !.path = cp, !.result = "Ok",
                             !.id = Unwrap(Lookup(World, cp))]
           ELSE LET a == Allocate(World) IN
                /\ Len(a.W.res) <= MaxSlots
                /\ CASE a.out = "Panic" ->
                          /\ Install(a.W)
                          /\ UNCHANGED failed
                          /\ ret' = NoRet
                     [] a.out # "Panic" /\ outcome = "open" ->
                          /\ failed < MaxFailed
                          /\ failed' = failed + 1
                          /\ Install(a.W)
                          /\ ret' = [NoRet EXCEPT !.op = "load", !.path = cp,
                                       !.result = "Err"]
                     [] a.out # "Panic" /\ outcome = "ctor" ->
                          /\ failed < MaxFailed
                          /\ failed' = failed + 1
                          /\ Install(PushParent(a.W, cp, a.id))
                          /\ ret' = [NoRet EXCEPT !.op = "load", !.path = cp,
                                       !.result = "Err", !.built = TRUE]
                     [] a.out # "Panic" /\ outcome = "ok" ->
                          /\ Len(arcs) < MaxArcs
                          /\ UNCHANGED failed
                          /\ LET par == IF a.W.parent_stack = <<>> THEN None
                                        ELSE Some(a.W.parent_stack[Len(a.W.parent_stack)])
                             IN  Install([a.W EXCEPT
                                    !.res[a.id.idx + 1] =
                                        Filled(a.id.generation, par, cp,
                                               Some(Value(FirstContent, <<>>)), 0),
                                    !.names[cp] = Some(a.id),
                                    !.arcs = Append(@, [id |-> a.id, strong |-> 1,
                                                        path |-> cp, drops |-> 0])])
                          /\ ret' = [NoRet EXCEPT !.op = "load", !.path = cp,
                                       !.result = "Ok", !.id = a.id, !.built = TRUE]

\* Resources::remove / remove_any called with a handle handed out earlier.
RemoveAny(k) ==
    /\ fault = "none"
    /\ UNCHANGED <<appvars, mapvars, assetvars>>
    /\ k \in 1..Len(arcs)
    /\ Install(remove_any(World, arcs[k].id))
    /\ ret' = [NoRet EXCEPT !.op = "remove", !.id = arcs[k].id]
    /\ UNCHANGED <<client, stack, hooks, failed, ops>>

RemoveNext ==
    \/ \E p \in Paths, outcome \in {"ok", "open", "ctor"} : AppInsert(p, outcome)
    \/ \E k \in 1..MaxArcs : RemoveAny(k)

RemoveSpec == Init /\ [][RemoveNext]_vars

\* ------------------------------------------------------- the application
\* src/app/mod.rs: App.state under the events of the window's event loop.  A
\* config is known by what its file held when it was loaded; an error by its
\* text.
Configs == {1, 2, 3}
Errors == {"e1", "e2"}
NotFound == "Could not find ShaderTool.ron or ShaderTool.json"

\* enum State
NotLoaded(error) == [Taken EXCEPT !.error = error]
FirstFrame(old_config, config, kind) ==
    [tag |-> "FirstFrame", old_config |-> old_config, config |-> config,
     kind |-> kind, error |-> ""]
Loaded(config, kind) ==
    [tag |-> "Loaded", old_config |-> None, config |-> config, kind |-> kind,
     error |-> ""]
ReloadError(config, error, kind) ==
    [tag |-> "ReloadError", old_config |-> None, config |-> config,
     kind |-> kind, error |-> error]

\* What Config::load or Config::render may answer: Ok, or Err(text).
Answers ==
    [ok : {TRUE}, config : Configs, error : {""}]
        \cup [ok : {FALSE}, config : {0}, error : Errors]

\* App::initial_load_config
initial_load_config(ron_exists, json_exists, r) ==
    IF ron_exists
    THEN IF r.ok THEN FirstFrame(None, r.config, "Ron") ELSE NotLoaded(r.error)
    ELSE IF json_exists
         THEN IF r.ok THEN FirstFrame(None, r.config, "Json") ELSE NotLoaded(r.error)
         ELSE NotLoaded(NotFound)

\* The failed reload forgets the config it had.
keep_configLost(st, e) == NotLoaded(e)

\* lines 356-362: Err(e) => State::ReloadError { config, kind, error }
keep_config(st, e) == ReloadError(st.config, e, st.kind)

\* A config that loads without error is accepted before it has drawn a frame.
file_changedTrusts(st, ron_exists, json_exists, r) ==
    CASE st.tag = "NotLoaded" -> initial_load_config(ron_exists, json_exists, r)
      [] st.tag = "FirstFrame" ->
            IF r.ok THEN FirstFrame(st.old_config, r.config, st.kind)
            ELSE IF IsSome(st.old_config)
                 THEN ReloadError(Unwrap(st.old_config), r.error, st.kind)
                 ELSE NotLoaded(r.error)
      [] OTHER ->
            IF r.ok THEN Loaded(r.config, st.kind)
            ELSE ReloadError(st.config, r.error, st.kind)

\* The arm of handle_event for UserEvent::FileChanged: the state it leaves,
\* given which config files exist and what Config::load answers.
file_changed(st, ron_exists, json_exists, r) ==
    CASE st.tag = "NotLoaded" -> initial_load_config(ron_exists, json_exists, r)
      [] st.tag = "FirstFrame" ->
            IF r.ok THEN FirstFrame(st.old_config, r.config, st.kind)
            ELSE IF IsSome(st.old_config)
                 THEN ReloadError(Unwrap(st.old_config), r.error, st.kind)
                 ELSE NotLoaded(r.error)
      [] OTHER ->
            IF r.ok THEN FirstFrame(Some(st.config), r.config, st.kind)
            ELSE keep_config(st, r.error)

Event(kind, load) == [kind |-> kind, load |-> load, before |-> state]

FileChanged(ron_exists, json_exists, r) ==
    /\ fault = "none" /\ should_run
    /\ state' = file_changed(state, ron_exists, json_exists, r)
    /\ event' = Event("FileChanged",
                      IF state.tag = "NotLoaded" /\ ~ron_exists /\ ~json_exists
                      THEN "" ELSE IF r.ok THEN "Ok" ELSE "Err")
    /\ UNCHANGED <<storevars, mapvars, assetvars, fault, should_run, rendered, app>>

\* App::redraw: the first frame of a new config decides whether it is kept; a
\* config already accepted is rendered with unwrap.
Redraw(r) ==
    /\ fault = "none" /\ should_run
    /\ event' = Event("Redraw", "")
    /\ UNCHANGED <<storevars, mapvars, assetvars, should_run, app>>
    /\ rendered' = IF state.tag = "FirstFrame" /\ r.ok
                   THEN rendered \cup {state.config} ELSE rendered
    /\ CASE state.tag \in {"Loaded", "ReloadError"} ->
              /\ state' = state
              /\ fault' = IF r.ok THEN fault ELSE "render_unwrap"
         [] state.tag = "FirstFrame" ->
              /\ fault' = fault
              /\ state' = IF r.ok THEN Loaded(state.config, state.kind)
                          ELSE IF IsSome(state.old_config)
                               THEN ReloadError(Unwrap(state.old_config), r.error,
                                                state.kind)
                               ELSE NotLoaded(r.error)
         [] OTHER -> UNCHANGED <<state, fault>>

\* WindowEvent::CloseRequested
CloseRequested ==
    /\ fault = "none" /\ should_run
    /\ should_run' = FALSE
    /\ event' = Event("CloseRequested", "")
    /\ UNCHANGED <<storevars, mapvars, assetvars, fault, state, rendered, app>>

\* App::new
AppInit ==
    /\ StoreInit /\ MapNew /\ AssetsNew
    /\ should_run = TRUE
    /\ event = NoEvent
    /\ rendered = {}
    /\ app = NoApp
    /\ \E ron_exists, json_exists \in BOOLEAN, r \in Answers :
          state = initial_load_config(ron_exists, json_exists, r)

AppNext ==
    \/ \E ron_exists, json_exists \in BOOLEAN, r \in Answers :
          FileChanged(ron_exists, json_exists, r)
    \/ \E r \in Answers : Redraw(r)
    \/ CloseRequested

AppSpec == AppInit /\ [][AppNext]_vars

\* ------------------------------------------------ the application, src/app.rs
\* App of src/app.rs keeps its config as an asset that is reloaded in place.

\* The redraw arms of handle_event: Ok(_) => old_config.take(), Err(e) =>
\* config = old_config.take() and the error is shown.
redraw_result(a, r) ==
    IF r.ok THEN [a EXCEPT !.old_config = None]
    ELSE [a EXCEPT !.config = a.old_config, !.old_config = None,
                   !.error = Some(r.error)]

\* App::redraw followed by the arm of handle_event that takes its result.
\* render runs when there is a config; Err is render's or target.finish's.
AppRsRedraw(r) ==
    /\ fault = "none"
    /\ app' = redraw_result(app, r)
    /\ rendered' = IF r.ok /\ IsSome(app.config)
                   THEN rendered \cup {Unwrap(app.config)} ELSE rendered
    /\ event' = Event("Redraw", IF r.ok THEN "Ok" ELSE "Err")
    /\ UNCHANGED <<storevars, mapvars, assetvars, fault, state, should_run>>

\* UserEvent::FileChanged: without a config AssetRef::build(Config::load) is
\* tried; with one, asset::reload(&path) reloads in place whatever assets were
\* built from the path, and may fail after some of them have changed: the
\* config asset then holds some content c.
AppRsFileChanged(r, c) ==
    /\ fault = "none"
    /\ app' = IF ~IsSome(app.config)
              THEN IF r.ok THEN [app EXCEPT !.config = Some(r.config), !.error = None]
                   ELSE [app EXCEPT !.error = Some(r.error)]
              ELSE IF r.ok THEN [app EXCEPT !.config = Some(r.config), !.error = None]
                   ELSE [app EXCEPT !.config = Some(c), !.error = Some(r.error)]
    /\ event' = Event("FileChanged", IF r.ok THEN "Ok" ELSE "Err")
    /\ UNCHANGED <<storevars, mapvars, assetvars, fault, state, should_run, rendered>>

\* App::new of src/app.rs, which needs one of the two config files to exist.
AppRsInit ==
    /\ StoreInit /\ MapNew /\ AssetsNew
    /\ state = Taken /\ should_run = TRUE /\ event = NoEvent /\ rendered = {}
    /\ \E ron_exists \in BOOLEAN, r \in Answers :
          app = [ron |-> ron_exists,
                 config |-> IF r.ok THEN Some(r.config) ELSE None,
                 old_config |-> None,
                 error |-> IF r.ok THEN None ELSE Some(r.error)]

AppRsNext ==
    \/ \E r \in Answers : AppRsRedraw(r)
    \/ \E r \in Answers, c \in Configs : AppRsFileChanged(r, c)

AppRsSpec == AppRsInit /\ [][AppRsNext]_vars

\* ------------------------------------------------------ the asset registry
\* src/asset/mod.rs.  An asset is the position in rcs of its Rc; a
\* WeakAssetRef is that position, and upgrades while the strong count is not 0.
Assets == [active |-> active, rcs |-> rcs, load_stack |-> load_stack]

\* clean() that empties the lists and keeps their paths.
asset_cleanKeepsPaths(A) ==
    [A EXCEPT !.active =
        [p \in DOMAIN A.active |->
            SelectSeq(A.active[p], LAMBDA w : A.rcs[w].strong # 0)]]

\* asset::clean
asset_clean(A) ==
    LET kept(p) == SelectSeq(A.active[p], LAMBDA w : A.rcs[w].strong # 0) IN
    [A EXCEPT !.active =
        [p \in {q \in DOMAIN A.active : kept(q) # <<>>} |-> kept(p)]]

\* The lookup at the head of AssetRef::build: the first weak reference under
\* the path that upgrades.
find_live(A, path) ==
    IF path \notin DOMAIN A.active THEN None
    ELSE LET live == SelectSeq(A.active[path], LAMBDA w : A.rcs[w].strong # 0) IN
         IF live = <<>> THEN None ELSE Some(Head(live))

AssetsInstall(A) ==
    active' = A.active /\ rcs' = A.rcs /\ load_stack' = A.load_stack

\* AssetRef::build for a file that refers to no other file; ok tells whether
\* the constructor f succeeds.
AssetBuild(p, ok) ==
    /\ fault = "none"
    /\ UNCHANGED <<storevars, appvars, mapvars, fault>>
    /\ LET path == canonicalize(p) IN
       IF ~IsSome(path) THEN ok /\ AssetsInstall(Assets)
       ELSE LET hit == find_live(Assets, Unwrap(path)) IN
            IF IsSome(hit)
            THEN /\ ok
                 /\ rcs[Unwrap(hit)].strong < MaxClient
                 /\ AssetsInstall([Assets EXCEPT !.rcs[Unwrap(hit)].strong = @ + 1])
            ELSE IF ~ok
                 THEN \* f(&path, args)? returns with the Vec pushed on LOAD_STACK
                      /\ Len(load_stack) < MaxFailed
                      /\ AssetsInstall([Assets EXCEPT !.load_stack = Append(@, <<>>)])
                 ELSE LET k == Len(rcs) + 1
                          cp == Unwrap(path)
                      IN  /\ k <= MaxAssets
                          /\ AssetsInstall(
                               [active |->
                                   [q \in DOMAIN active \cup {cp} |->
                                       IF q = cp
                                       THEN Append(IF cp \in DOMAIN active
                                                   THEN active[cp] ELSE <<>>, k)
                                       ELSE active[q]],
                                rcs |-> Append(rcs, [strong |-> 1, path |-> cp]),
                                \* the Vec pushed for this build is popped; the
                                \* new asset is pushed on the one below, if any
                                load_stack |->
                                   IF load_stack = <<>> THEN load_stack
                                   ELSE [load_stack EXCEPT ![Len(load_stack)] =
                                            Append(@, k)]])

\* An AssetRef is dropped.
AssetDrop(k) ==
    /\ fault = "none"
    /\ k \in 1..Len(rcs)
    /\ rcs[k].strong > 0
    /\ AssetsInstall([Assets EXCEPT !.rcs[k].strong = @ - 1])
    /\ UNCHANGED <<storevars, appvars, mapvars, fault>>

\* asset::clean is called.
AssetClean ==
    /\ fault = "none"
    /\ AssetsInstall(asset_clean(Assets))
    /\ UNCHANGED <<storevars, appvars, mapvars, fault>>

AssetNext ==
    \/ \E p \in Paths, ok \in BOOLEAN : AssetBuild(p, ok)
    \/ \E k \in 1..MaxAssets : AssetDrop(k)
    \/ AssetClean

AssetSpec == Init /\ [][AssetNext]_vars

\* ------------------------------------------------------------ the slot map
\* src/util/slotmap.rs: SlotMap<T, VersionKey>.
MapValues == {1, 2}

\* VersionKey { idx, version }
VersionKey(i, v) == [idx |-> i, version |-> v]

\* VersionKey::next_version
next_version(k) == [k EXCEPT !.version = wrapping_add(@)]

\* SlotMapValue::Free(next) and SlotMapValue::Value { value, version }
SlotFree(n) == [tag |-> "Free", next |-> n, value |-> 0, version |-> 0]
SlotValue(v, ver) == [tag |-> "Value", next |-> None, value |-> v, version |-> ver]

Map == [values |-> values, free |-> free, fault |-> fault]

\* SlotMap::get (and get_mut)
slotmap_get(M, k) ==
    IF k.idx >= Len(M.values) THEN None
    ELSE LET e == M.values[k.idx + 1] IN
         IF e.tag = "Value"
         THEN IF k.version = e.version THEN Some(e.value) ELSE None
         ELSE None

\* SlotMap::insert: the map after the call and the key returned.  (The arena
\* stays far below VersionKey::max() entries.)
slotmap_insert(M, v) ==
    IF IsSome(M.free)
    THEN LET x == Unwrap(M.free)
             e == M.values[x.idx + 1]
         IN  IF e.tag = "Free"
             THEN [M |-> [M EXCEPT !.free = e.next,
                                   !.values[x.idx + 1] =
                                       SlotValue(v, next_version(x).version)],
                   key |-> next_version(x)]
             ELSE [M |-> Panic(M, "invalid free list"), key |-> x]
    ELSE [M |-> [M EXCEPT !.values = Append(@, SlotValue(v, 0))],
          key |-> VersionKey(Len(M.values), 0)]

\* A remove that does not write the Free entry back (line 256 left out).
slotmap_removeNoRestore(M, k) ==
    IF k.idx >= Len(M.values) THEN [M |-> M, r |-> None]
    ELSE LET e == M.values[k.idx + 1] IN
         IF e.tag = "Value"
         THEN [M |-> [M EXCEPT !.values[k.idx + 1] = SlotFree(M.free),
                               !.free = Some(k)],
               r |-> Some(e.value)]
         ELSE [M |-> [M EXCEPT !.values[k.idx + 1] = SlotFree(M.free)], r |-> None]

\* SlotMap::remove: the map after the call and the Option returned.
slotmap_remove(M, k) ==
    IF k.idx >= Len(M.values) THEN [M |-> M, r |-> None]
    ELSE LET e == M.values[k.idx + 1] IN
         IF e.tag = "Value"
         THEN [M |-> [M EXCEPT !.values[k.idx + 1] = SlotFree(M.free),
                               !.free = Some(k)],
               r |-> Some(e.value)]
         ELSE [M |-> M, r |-> None]

\* SlotMap::is_present: "true", "false", or "panic" (values[idx.index()] with
\* the index out of bounds).
is_present(M, k) ==
    IF ~(k.idx <= Len(M.values)) THEN "false"
    ELSE IF k.idx >= Len(M.values) THEN "panic"
    ELSE LET e == M.values[k.idx + 1] IN
         IF e.tag = "Free" THEN "false"
         ELSE IF e.version = k.version THEN "true" ELSE "false"

\* The keys a caller may ask about: in range, at the end, and past it.
ProbeKeys == {VersionKey(i, v) : i \in 0..(MaxEntries + 1), v \in 0..1}

MapInstall(M) == values' = M.values /\ free' = M.free /\ fault' = M.fault

MapInsert(v) ==
    /\ fault = "none"
    /\ Len(keys) < MaxKeys
    /\ LET r == slotmap_insert(Map, v) IN
         /\ Len(r.M.values) <= MaxEntries
         /\ MapInstall(r.M)
         /\ IF r.M.fault = "none"
            THEN /\ keys' = Append(keys, [key |-> r.key, value |-> v])
                 /\ call' = [NoCall EXCEPT !.op = "insert", !.key = r.key,
                                            !.value = v, !.result = "key"]
            ELSE /\ keys' = keys
                 /\ call' = [NoCall EXCEPT !.op = "insert", !.value = v,
                                            !.result = "panic"]
    /\ UNCHANGED <<storevars, appvars, assetvars>>

\* remove called with the key k.
MapRemoveKey(k) ==
    /\ fault = "none"
    /\ LET r == slotmap_remove(Map, k) IN
         /\ MapInstall(r.M)
         /\ call' = [NoCall EXCEPT !.op = "remove", !.key = k,
                                    !.value = IF IsSome(r.r) THEN Unwrap(r.r) ELSE 0,
                                    !.result = IF IsSome(r.r) THEN "Some" ELSE "None"]
    /\ UNCHANGED <<keys, storevars, appvars, assetvars>>

\* remove called with a key that insert returned at some time.
MapRemove(j) ==
    /\ j \in 1..Len(keys)
    /\ MapRemoveKey(keys[j].key)

MapIsPresent(k) ==
    /\ fault = "none"
    /\ LET r == is_present(Map, k) IN
         /\ call' = [NoCall EXCEPT !.op = "is_present", !.key = k, !.result = r]
         /\ fault' = IF r = "panic" THEN "is_present index" ELSE fault
    /\ UNCHANGED <<values, free, keys, storevars, appvars, assetvars>>

MapNext ==
    \/ \E v \in MapValues : MapInsert(v)
    \/ \E j \in 1..MaxKeys : MapRemove(j)
    \/ \E k \in ProbeKeys : MapIsPresent(k)

SlotMapSpec == Init /\ [][MapNext]_vars

\* The same map when remove is also called with keys that insert never
\* returned: any index up to one past the arena, any of two versions.
AnyKeyNext ==
    \/ MapNext
    \/ \E k \in ProbeKeys : MapRemoveKey(k)

AnyKeySpec == Init /\ [][AnyKeyNext]_vars

\* ------------------------------------------------------------ properties
\* The arc made by the latest constructing load of a canonical path (0: none).
Made(cp) == {k \in 1..Len(arcs) : arcs[k].path = cp}
Origin(cp) == IF Made(cp) = {} THEN 0 ELSE CHOOSE k \in Made(cp) : \A j \in Made(cp) : j <= k

\* C1: generation safety.  Every handle a successful load has handed out
\* resolves through get only to the occupant it was made for: once its slot
\* has been freed and reused, get returns None, never the new occupant.
C1_GenerationSafety ==
    \A k \in 1..Len(arcs) :
        get(World, arcs[k].id).r = "Some" => res[arcs[k].id.idx + 1].key = k

\* A slot was freed and reused, and the old handle resolves to None.
C1_Witness ==
    \E k1, k2 \in 1..Len(arcs) :
        /\ k1 # k2
        /\ arcs[k1].id.idx = arcs[k2].id.idx
        /\ res[arcs[k2].id.idx + 1].tag = "File"
        /\ res[arcs[k2].id.idx + 1].key = k2
        /\ get(World, arcs[k2].id).r = "Some"
        /\ get(World, arcs[k1].id).r = "None"

\* C2: dedup.  A load of a path that is indexed by a live resource returns Ok
\* with the handle its constructing load returned (the same Arc, so == holds)
\* and does not run the constructor.
C2_Dedup ==
    (ret.op = "load" /\ ret.live) =>
        /\ ret.result = "Ok"
        /\ ~ret.built
        /\ ret.arc = Origin(ret.path)

\* The world outside loaded a path twice and owns two equal handles.
C2_Witness ==
    /\ ret.op = "load" /\ ret.live /\ ret.result = "Ok" /\ ~ret.built
    /\ stack = <<>>
    /\ client[ret.arc] = 2
    /\ arcs[ret.arc].strong = 2

\* C3: a reload of a resource whose handle is in use, and whose
\* reconstruct-in-place fails, returns the error with get on that handle giving
\* exactly the value the slot held before, at the same generation.
C3_ReloadKeepsValue ==
    (ret.op = "reload" /\ ret.result = "Err" /\ ret.built /\ ret.live) =>
        get(World, ret.id) = [r |-> "Some", v |-> Unwrap(ret.pre)]

\* A reconstruct failed after the body had loaded something, on a value whose
\* content an earlier reload had changed.
C3_Witness ==
    /\ ret.op = "reload" /\ ret.result = "Err" /\ ret.built /\ ret.live
    /\ get(World, ret.id).r = "Some"
    /\ get(World, ret.id).v.content # FirstContent

\* The slots on the free list: the chain from first_empty along next.
RECURSIVE Chain(_, _, _)
Chain(W, o, fuel) ==
    IF ~IsSome(o) \/ fuel = 0 THEN {}
    ELSE {Unwrap(o)} \cup Chain(W, W.res[Unwrap(o) + 1].next, fuel - 1)

FreeList == Chain(World, first_empty, Len(res))

EmptySlots == {i \in 0..(Len(res) - 1) : res[i + 1].tag = "Empty"}

\* Slots allocated by loads still in progress.
Reserved == {stack[j].id.idx : j \in {j \in 1..Len(stack) : stack[j].kind = "load"}}

\* C4: no slot leak.  After a failed load, every Empty slot that is not the
\* reservation of a load still in progress is on the free list.
C4_NoSlotLeak ==
    (ret.op = "load" /\ ret.result = "Err") => (EmptySlots \ Reserved) \subseteq FreeList

\* C5: after a load whose constructor failed the path is not indexed, and the
\* next load of it runs the constructor again: it is neither answered from the
\* index nor stopped by what the failed load left behind.
C5_RetryAfterFailure ==
    (ret.op = "load" /\ ret.result = "Err" /\ ret.built) =>
        /\ ~IsSome(names[ret.path])
        /\ insert_res(World, ret.path, TRUE).out = "Construct"

\* A constructor failed in a load from the world outside.
C5_Witness ==
    /\ ret.op = "load" /\ ret.result = "Err" /\ ret.built
    /\ stack = <<>>
    /\ insert_res(World, ret.path, TRUE).out = "Construct"

\* C6: a load whose constructor failed leaves parent_stack as it found it, and
\* parent_stack is empty whenever no store call is in progress.
C6_FailedLoadPops ==
    /\ (ret.op = "load" /\ ret.result = "Err" /\ ret.built) => parent_stack = ret.stack0
    /\ stack = <<>> => parent_stack = <<>>

\* The resource a returning load has just filled.
JustBuilt == ret.op = "load" /\ ret.result = "Ok" /\ ret.built

\* C7: a resource built by a load that a constructor made is filled with that
\* constructor's resource as parent; one built by a load from the world
\* outside is filled with no parent.
C7_ParentEdge ==
    (JustBuilt /\ (stack = <<>> \/ Top.kind = "load")) =>
        res[ret.id.idx + 1].parent = IF stack = <<>> THEN None ELSE Some(Top.id)

\* C8: a resource built by a load that the reconstruct-in-place of A made is
\* filled with parent A.
C8_ReloadRebuildsEdge ==
    (JustBuilt /\ stack # <<>> /\ Top.kind = "reload") =>
        res[ret.id.idx + 1].parent = Some(Top.id)

\* A dedup hit has just returned.
JustHit == ret.op = "load" /\ ret.result = "Ok" /\ ~ret.built

C10_Pruning ==
    \A i \in 1..Len(hooks) :
        hooks[i].result = "false" =>
            /\ i = Len(hooks)
            /\ ret.op = "reload" /\ ret.result = "OkTrue"

\* A reloaded, its parent B answered false, and B has a live parent C whose
\* hook was not invoked.
C10_Witness ==
    /\ ret.op = "reload" /\ ret.result = "OkTrue"
    /\ Len(hooks) = 1 /\ hooks[1].result = "false"
    /\ hooks[1].changed = ret.id
    /\ res[ret.id.idx + 1].parent = Some(hooks[1].target)
    /\ get(World, hooks[1].target).r = "Some"
    /\ LET b == res[hooks[1].target.idx + 1] IN
         /\ IsSome(b.parent)
         /\ Unwrap(b.parent).idx \notin {ret.id.idx, hooks[1].target.idx}
         /\ get(World, Unwrap(b.parent)).r = "Some"

\* The hooks of the reload that has just returned, with the places in the log
\* where the hook of resource x ran.
Walked == stack = <<>> /\ ret.op = "reload" /\ hooks # <<>>
Invocations(x) == {j \in 1..Len(hooks) : hooks[j].target = x}

\* C11: propagation continuation.  In a reload of A whose parent B answered
\* true and has a parent C (A, B, C three resources), the hook of C runs
\* exactly once, right after B's, with changed = B.
C11_Continuation ==
    (Walked /\ ret.result = "OkTrue"
        /\ hooks[1].result = "true" /\ IsSome(hooks[1].parent)
        /\ Cardinality({ret.id, hooks[1].target, Unwrap(hooks[1].parent)}) = 3) =>
            /\ Invocations(Unwrap(hooks[1].parent)) = {2}
            /\ hooks[2].changed = hooks[1].target

\* C12: propagation stops at a vanished ancestor.  The walk never faults on a
\* parent handle whose slot is Empty, and never runs the hook of a slot whose
\* generation differs from the parent handle's.
C12_VanishedAncestorStops ==
    /\ fault # "dependency_as_filled"
    /\ \A i \in 1..Len(hooks) : ~hooks[i].stale

\* C13: a failing hook aborts the walk.  No hook is invoked after a hook has
\* returned an error in the same reload, and that reload returns the error.
C13_FailingHookAborts ==
    \A i \in 1..Len(hooks) :
        hooks[i].result = "err" =>
            /\ i = Len(hooks)
            /\ ret.op = "reload" /\ ret.result = "Err"

\* A reloaded, the hook of its parent B failed, and B has a live parent C whose
\* hook was not invoked.
C13_Witness ==
    /\ ret.op = "reload" /\ ret.result = "Err"
    /\ Len(hooks) = 1 /\ hooks[1].result = "err"
    /\ hooks[1].changed = ret.id
    /\ IsSome(hooks[1].parent)
    /\ Unwrap(hooks[1].parent).idx \notin {ret.id.idx, hooks[1].target.idx}
    /\ get(World, Unwrap(hooks[1].parent)).r = "Some"
    /\ get(World, hooks[1].target).r = "Some"

\* Pending-free notifications for the id of arc k, and whether the resource of
\* arc k still occupies its slot.
Pending(k) == Cardinality({i \in 1..Len(chan) : chan[i] = arcs[k].id})
Occupies(k) ==
    LET e == res[arcs[k].id.idx + 1] IN e.tag = "File" /\ e.key = k

C15_UnrelatedReload ==
    [][(stack = <<>> /\ ret'.op = "reload"
          /\ (ret'.path = "" \/ ~IsSome(names[ret'.path]))) =>
            /\ ret'.result = "OkFalse"
            /\ stack' = <<>> /\ hooks' = <<>>
            /\ \A k \in 1..Len(arcs) :
                  arcs'[k].strong > 0 =>
                      res'[arcs[k].id.idx + 1] = res[arcs[k].id.idx + 1]]_vars

\* A reload of a path never loaded has freed the slot of a dropped resource
\* while another resource, whose handle the world outside owns, stays.
C15_Witness ==
    /\ stack = <<>> /\ ret.op = "reload" /\ ret.result = "OkFalse"
    /\ ret.path # "" /\ Made(ret.path) = {}
    /\ chan = <<>>
    /\ \E k \in 1..Len(arcs) : arcs[k].strong = 0 /\ arcs[k].id.idx \in FreeList
    /\ \E k \in 1..Len(arcs) :
          client[k] > 0 /\ get(World, arcs[k].id).r = "Some"

\* C16: handles survive reloads.  After a reload, successful or failed, of a
\* resource whose handle was in use when it began, the slot is Filled at the
\* same generation and get on the handle returns Some.
C16_HandlesSurviveReloads ==
    (stack = <<>> /\ ret.op = "reload" /\ ret.id # NoId /\ ret.live) =>
        /\ res[ret.id.idx + 1].tag = "File"
        /\ res[ret.id.idx + 1].generation = ret.id.generation
        /\ get(World, ret.id).r = "Some"

\* C18: the slot value is restored on every exit of reload.  Whenever no store
\* call is in progress, every Filled slot holds its value, so get on its
\* handle returns Some without faulting.
C18_ValueRestored ==
    stack = <<>> =>
        \A i \in 1..Len(res) : res[i].tag = "File" => IsSome(res[i].file)

\* What a cleanup pass started in the current state ends with.
Swept == clean(World)

\* A cleanup pass has just ended: reload ends with one on these two exits.
PassEnded ==
    /\ stack = <<>> /\ ret.op = "reload"
    /\ ret.result = "OkTrue" \/ (ret.result = "OkFalse" /\ ret.path # "")

\* C19: a cleanup pass drains the whole queue.  When a pass ends the channel
\* is empty, and every resource that occupied a slot and has no strong handle
\* left (one whose last handle went with a value freed in the same pass
\* included) has its slot Empty and on the free list and its path out of the
\* index.
C19_PassDrains ==
    /\ Swept.chan = <<>>
    /\ \A k \in 1..Len(arcs) :
          (Occupies(k) /\ Swept.arcs[k].strong = 0) =>
              /\ Swept.res[arcs[k].id.idx + 1].tag = "Empty"
              /\ arcs[k].id.idx \in Chain(Swept, Swept.first_empty, Len(Swept.res))
              /\ ~IsSome(Swept.names[arcs[k].path])
    /\ PassEnded =>
          /\ chan = <<>>
          /\ \A k \in 1..Len(arcs) : arcs[k].strong = 0 => ~Occupies(k)

\* One notification is pending, for a resource whose value owns the last
\* handle of another; the pass frees both slots.
C19_Witness ==
    \E k1, k2 \in 1..Len(arcs) :
        /\ k1 # k2
        /\ chan = <<arcs[k1].id>>
        /\ Occupies(k1) /\ Occupies(k2)
        /\ k2 \in HeldBy(k1)
        /\ arcs[k2].strong = 1
        /\ Swept.chan = <<>>
        /\ Swept.arcs[k2].strong = 0
        /\ Swept.res[arcs[k1].id.idx + 1].tag = "Empty"
        /\ Swept.res[arcs[k2].id.idx + 1].tag = "Empty"
        /\ Swept.first_empty = Some(arcs[k2].id.idx)

\* A free request for id is stale: no slot there, or an Empty one, or a Filled
\* one of another generation.
StaleRequest(W, id) ==
    LET e == Entry(W, id.idx) IN
    ~IsSome(e) \/ Unwrap(e).tag = "Empty" \/ Unwrap(e).generation # id.generation

SameStore(W) == W.res = res /\ W.first_empty = first_empty /\ W.names = names

\* remove_any with a stale handle changes nothing.
StaleRemoveNoOp ==
    [][(ret'.op = "remove" /\ StaleRequest(World, ret'.id)) =>
          (res' = res /\ first_empty' = first_empty /\ names' = names)]_vars

\* A cleanup pass that receives a stale notification changes nothing.
StaleNotificationNoOp ==
    \A k \in 1..Len(arcs) :
        StaleRequest(World, arcs[k].id) =>
            SameStore(clean([World EXCEPT !.chan = <<arcs[k].id>>]))

\* C20: stale free requests are no-ops.  A remove_any call or a pending-free
\* notification whose slot is Empty, or Filled at another generation, leaves
\* the slots, the free list and the path index unchanged.
C20_StaleFreeNoOp == StaleRemoveNoOp /\ []StaleNotificationNoOp

\* A handle was removed a second time after its slot had been refilled: the
\* new occupant is in place and indexed.
C20_Witness ==
    /\ ret.op = "remove"
    /\ LET e == res[ret.id.idx + 1] IN
         /\ e.tag = "File"
         /\ e.generation # ret.id.generation
         /\ names[e.name] = Some(AnyResourceId(ret.id.idx, e.generation))

\* C17: the application keeps the last good configuration.  A FileChanged
\* event handled in state Loaded or ReloadError whose Config::load fails leaves
\* state ReloadError with the config and kind it had and the new error text.
C17_KeepsLastGood ==
    (event.kind = "FileChanged" /\ event.load = "Err"
        /\ event.before.tag \in {"Loaded", "ReloadError"}) =>
            /\ state.tag = "ReloadError"
            /\ state.config = event.before.config
            /\ state.kind = event.before.kind
            /\ state.error \in Errors

\* A second failed reload in a row: the config is the one accepted before
\* both, and the error text is the new one.
C17_Witness ==
    /\ event.kind = "FileChanged" /\ event.load = "Err"
    /\ event.before.tag = "ReloadError"
    /\ state.tag = "ReloadError"
    /\ state.config = event.before.config /\ state.config \in Configs
    /\ state.error # event.before.error

\* A load has just allocated a slot: T::load is about to run in it, or
\* File::open failed after the allocation.
Allocating ==
    \/ Len(stack') = Len(stack) + 1 /\ stack'[Len(stack')].kind = "load"
    \/ ret'.op = "load" /\ ret'.result = "Err" /\ ~ret'.built /\ ret'.path # ""

\* C21: the allocation policy.  A load of a path that is not indexed takes the
\* head of the free list as the cleanup pass of the call left it: the new
\* occupant's generation is the freed occupant's plus one and the next field
\* of that slot becomes the head; with an empty free list a new slot is
\* appended at index = the previous length, with generation 0.
C21_AllocationPolicy ==
    [][Allocating =>
        IF IsSome(Swept.first_empty)
        THEN LET x == Unwrap(Swept.first_empty) IN
             /\ Len(res') = Len(res)
             /\ first_empty' = Swept.res[x + 1].next
             /\ \E k \in 1..Len(arcs) :
                    /\ arcs[k].id = AnyResourceId(x, Swept.res[x + 1].generation)
                    /\ Swept.arcs[k].strong = 0
             /\ Len(stack') > Len(stack) =>
                    stack'[Len(stack')].id =
                        AnyResourceId(x, Swept.res[x + 1].generation + 1)
        ELSE /\ res' = Append(Swept.res, Empty(0, None))
             /\ first_empty' = None
             /\ Len(stack') > Len(stack) =>
                    stack'[Len(stack')].id = AnyResourceId(Len(res), 0)]_vars

\* Two slots were free, slot 1 freed after slot 0; the load that is running
\* took slot 1 at generation 1 and slot 0 is the head of the free list.
C21_Witness ==
    /\ stack # <<>> /\ Top.kind = "load"
    /\ Top.id = AnyResourceId(1, 1)
    /\ first_empty = Some(0)
    /\ res[1].tag = "Empty" /\ res[1].next = None
    /\ res[2].tag = "Empty" /\ res[2].generation = 0

\* a < b as u32 values.
u32_lt(a, b) == IF (a >= 0) = (b >= 0) THEN a < b ELSE a >= 0

\* No two resources ever built carry the same (index, generation) pair.
DistinctOccupancies ==
    \A j, k \in 1..Len(arcs) : j # k => arcs[j].id # arcs[k].id

\* A load that reuses a freed slot gives it a generation above the freed one.
GenerationRises ==
    [][(Len(stack') = Len(stack) + 1 /\ stack'[Len(stack')].kind = "load"
            /\ IsSome(Swept.first_empty)) =>
          u32_lt(Swept.res[Unwrap(Swept.first_empty) + 1].generation,
                 stack'[Len(stack')].id.generation)]_vars

\* C22: generations advance monotonically.  The successive occupants of one
\* slot index have strictly increasing generations, so no two occupancies
\* carry the same (index, generation) pair, for every number of free/reuse
\* cycles of the index.
C22_GenerationsAdvance == []DistinctOccupancies /\ GenerationRises

\* The step runs a cleanup pass: insert_res starts with one, reload ends
\* with one on its two Ok exits.
CleanStep ==
    \/ Len(stack') = Len(stack) + 1 /\ stack'[Len(stack')].kind = "load"
    \/ ret'.op = "load" /\ ~ret'.built
    \/ ret'.op = "reload" /\ ret'.result \in {"OkTrue", "OkFalse"}

\* The resource built as arc k is where its constructor's return put it.
InPlace(k) ==
    /\ res[arcs[k].id.idx + 1].tag = "File"
    /\ res[arcs[k].id.idx + 1].generation = arcs[k].id.generation
    /\ names[arcs[k].path] = Some(arcs[k].id)

\* C23: cleanup is deferred.  The step that drops the last strong handle of a
\* resource leaves its slot and its index entry as they were; while the
\* notification is pending the slot is Filled with the same generation and
\* the path is indexed; and a slot goes from Filled to Empty, or a path out of
\* the index, only in a step that runs a cleanup pass (inside load or reload).
C23_CleanupDeferred ==
    /\ [](\A k \in 1..Len(arcs) :
            (arcs[k].strong = 0 /\ Pending(k) > 0) => InPlace(k))
    /\ [][\A k \in 1..Len(arcs) :
            (arcs[k].strong > 0 /\ arcs'[k].strong = 0 /\ ~CleanStep) =>
                /\ res'[arcs[k].id.idx + 1].tag = "File"
                /\ res'[arcs[k].id.idx + 1].generation = arcs[k].id.generation
                /\ names'[arcs[k].path] = names[arcs[k].path]
                /\ first_empty' = first_empty]_vars
    /\ [][((\E i \in 1..Len(res) : res[i].tag = "File" /\ res'[i].tag = "Empty")
            \/ (\E cp \in CanonPaths : IsSome(names[cp]) /\ ~IsSome(names'[cp])))
           => CleanStep]_vars

\* The owner has dropped the last handle and no store call has run since: the
\* notification is queued, the slot is Filled and the path indexed.
C23_Witness ==
    /\ stack = <<>> /\ ret.op = "none"
    /\ \E k \in 1..Len(arcs) :
          /\ arcs[k].strong = 0 /\ client[k] = 0
          /\ chan = <<arcs[k].id>>
          /\ InPlace(k)
          /\ IsSome(res[arcs[k].id.idx + 1].file)

\* The reload call that just returned failed in DynResource::reload.
ReconstructFailed == ret.op = "reload" /\ ret.result = "Err" /\ ret.built

\* C24: a failed reconstruct notifies nobody.  A reload call whose
\* reconstruct-in-place returned an error has invoked no dependency hook.
C24_FailedReconstructSilent == ReconstructFailed => (hooks = <<>> /\ stack = <<>>)

\* The reconstruct of a resource that has a parent failed.
C24_Witness ==
    /\ ReconstructFailed
    /\ hooks = <<>>
    /\ res[ret.id.idx + 1].tag = "File"
    /\ IsSome(res[ret.id.idx + 1].parent)
    /\ res[Unwrap(res[ret.id.idx + 1].parent).idx + 1].tag = "File"

\* The store as the hook of resource id sees it: reload_dependency has taken
\* the value of id out of its slot (line 241) before it calls the hook.
DuringHook(W, id) == [W EXCEPT !.res[id.idx + 1].file = None]

\* C25: hook ordering.  When reload starts propagation the target's slot
\* holds the reconstructed value, and whenever an ancestor's hook runs,
\* get(changed) inside the hook returns Some.
C25_HookSeesValue ==
    /\ [][(stack # <<>> /\ Top.kind = "reload" /\ stack' # <<>>
             /\ stack'[1].kind = "notify") =>
               /\ get(World', Top.id).r = "Some"
               /\ get(World', Top.id).v.holds = Top.held]_vars
    /\ [][Len(hooks') = Len(hooks) + 1 =>
               LET h == hooks'[Len(hooks')] IN
               get(DuringHook(World, h.target), h.changed).r = "Some"]_vars

\* C26: a slot under reload is inert.  While reload has the value of its
\* target out of the slot (DynResource::reload is running), and while
\* reload_dependency has the value of an ancestor out (its hook is running),
\* get and get_mut with that resource's id return None.
C26_TakenSlotInert ==
    /\ [](\A j \in 1..Len(stack) :
             stack[j].kind = "reload" => get(World, stack[j].id).r = "None")
    /\ [][Len(hooks') = Len(hooks) + 1 =>
             LET h == hooks'[Len(hooks')] IN
             get(DuringHook(World, h.target), h.target).r = "None"]_vars

\* Key k is stale: the slot at its index holds a value of another version.
StaleKey(M, k) ==
    /\ k.idx < Len(M.values)
    /\ M.values[k.idx + 1].tag = "Value"
    /\ M.values[k.idx + 1].version # k.version

\* C27: SlotMap::remove with a stale key is a no-op.  It returns None and
\* leaves the value in the slot, every other value and the free list unchanged.
C27_StaleRemoveNoOp ==
    [][(call'.op = "remove" /\ StaleKey(Map, call'.key)) =>
          (call'.result = "None" /\ values' = values /\ free' = free)]_vars

\* C28: SlotMap keys are never reissued.  insert never returns a key it
\* returned before, and get(k) yields nothing but the value inserted under k.
C28_KeysNeverReissued ==
    /\ \A i, j \in 1..Len(keys) : i # j => keys[i].key # keys[j].key
    /\ \A i \in 1..Len(keys) :
          slotmap_get(Map, keys[i].key) \in {None, Some(keys[i].value)}

\* C29: SlotMap::is_present is total.  For every key it returns a boolean
\* without faulting, true exactly when get with the same key returns Some.
C29_IsPresentTotal ==
    call.op = "is_present" =>
        /\ call.result \in {"true", "false"}
        /\ (call.result = "true") <=> IsSome(slotmap_get(Map, call.key))

MapAfter == [values |-> values', free |-> free', fault |-> fault']

\* C30: SlotMap insert and remove do not move other values.  Every key other
\* than the one returned or removed that resolved to a value before the call
\* resolves to the same value after it.
C30_OthersStay ==
    [][call'.op \in {"insert", "remove"} =>
          \A k \in ProbeKeys \cup {keys[i].key : i \in 1..Len(keys)} :
              (k # call'.key /\ IsSome(slotmap_get(Map, k))) =>
                  slotmap_get(MapAfter, k) = slotmap_get(Map, k)]_vars

\* C31: only successfully rendered configs become the fallback.  Every config
\* held in state Loaded or ReloadError, and every old_config held in state
\* FirstFrame, has completed a successful render as the config of a
\* FirstFrame state.
C31_FallbackHasRendered ==
    /\ state.tag \in {"Loaded", "ReloadError"} => state.config \in rendered
    /\ (state.tag = "FirstFrame" /\ IsSome(state.old_config)) =>
           Unwrap(state.old_config) \in rendered

\* The first frame of a new config failed and the application fell back to
\* the config that had rendered before it.
C31_Witness ==
    /\ event.kind = "Redraw" /\ event.before.tag = "FirstFrame"
    /\ state.tag = "ReloadError"
    /\ state.config \in rendered
    /\ event.before.config \notin rendered
    /\ state.config = Unwrap(event.before.old_config)

\* C32: in src/app.rs a redraw failure falls back to the previous config.
\* When redraw returns an error for the current config and another config had
\* rendered successfully before, the config after the event is one that has
\* rendered; the application is not left without a config.
C32_RedrawFallsBack ==
    [][(event'.kind = "Redraw" /\ event'.load = "Err" /\ IsSome(app.config)
          /\ rendered \ {Unwrap(app.config)} # {}) =>
            (IsSome(app'.config) /\ Unwrap(app'.config) \in rendered)]_vars

\* What asset::clean called in the current state leaves.
Cleaned == asset_clean(Assets).active

\* C33: asset::clean removes exactly the dead entries.  After clean() the
\* registry holds no weak reference to a dropped asset and no path with an
\* empty list, and every weak reference to a live asset is retained under its
\* path key, in the order it had.
C33_CleanExact ==
    /\ \A p \in DOMAIN Cleaned :
          /\ Cleaned[p] # <<>>
          /\ \A i \in 1..Len(Cleaned[p]) : rcs[Cleaned[p][i]].strong > 0
    /\ \A p \in DOMAIN active :
          LET live == {i \in 1..Len(active[p]) : rcs[active[p][i]].strong > 0} IN
          /\ live # {} => p \in DOMAIN Cleaned
          /\ p \in DOMAIN Cleaned =>
                /\ Len(Cleaned[p]) = Cardinality(live)
                /\ \A i \in live : \E j \in 1..Len(Cleaned[p]) :
                      Cleaned[p][j] = active[p][i]
    /\ DOMAIN Cleaned \subseteq DOMAIN active

\* Two paths are registered; every asset of one is dropped, and the other
\* holds a dropped and a live asset: clean removes the first path and the
\* dropped reference of the second.
C33_Witness ==
    \E p, q \in DOMAIN active :
        /\ p # q
        /\ \A i \in 1..Len(active[p]) : rcs[active[p][i]].strong = 0
        /\ Len(active[q]) = 2
        /\ rcs[active[q][1]].strong = 0 /\ rcs[active[q][2]].strong > 0
        /\ DOMAIN Cleaned = DOMAIN active \ {p}
        /\ Cleaned[q] = <<active[q][2]>>

\* C34: path index and arena agree.  Whenever no store operation is in
\* progress, the index maps a path to (index, generation) exactly when the
\* slot at that index is Filled with that generation and that path: no two
\* entries name the same slot and no Filled slot is missing from the index.
C34_IndexAgrees ==
    stack = <<>> =>
        /\ \A cp \in CanonPaths :
              IsSome(names[cp]) =>
                  LET e == Entry(World, Unwrap(names[cp]).idx) IN
                  /\ IsSome(e)
                  /\ Unwrap(e).tag = "File"
                  /\ Unwrap(e).generation = Unwrap(names[cp]).generation
                  /\ Unwrap(e).name = cp
        /\ \A i \in 1..Len(res) :
              res[i].tag = "File" =>
                  names[res[i].name] = Some(AnyResourceId(i - 1, res[i].generation))
        /\ \A cp, cq \in CanonPaths :
              (cp # cq /\ IsSome(names[cp]) /\ IsSome(names[cq])) =>
                  Unwrap(names[cp]).idx # Unwrap(names[cq]).idx

\* C36: every load terminates.  No constructor runs for a path whose
\* constructor is already running further out in the same call: a nested
\* request for the path under construction returns without constructing it
\* again, so the nesting is bounded by the number of paths.
C36_LoadTerminates ==
    \A i, j \in 1..Len(stack) :
        (i < j /\ stack[i].kind = "load" /\ stack[j].kind = "load") =>
            stack[i].path # stack[j].path

\* C35: a dedup hit never faults.  Whenever load finds its canonical path in
\* the index, the indexed slot is Filled and the weak reference stored in it
\* upgrades: neither unwrap of lines 148-153 panics.
C35_HitNeverFaults == fault \notin {"as_filled", "upgrade"}

\* A constructor or reconstruct that is running got a handle by a dedup hit
\* on a resource one of whose handles had been dropped before.
C35_Witness ==
    /\ fault = "none"
    /\ stack # <<>>
    /\ JustHit
    /\ arcs[ret.arc].drops >= 1
    /\ arcs[ret.arc].strong >= 2
    /\ res[ret.id.idx + 1].tag = "File" /\ res[ret.id.idx + 1].key = ret.arc

\* The chain from o along next visits only Empty slots of the arena, none of
\* them in seen or twice, and ends in None.
RECURSIVE ChainSound(_, _, _)
ChainSound(W, o, seen) ==
    IF ~IsSome(o) THEN TRUE
    ELSE LET i == Unwrap(o) IN
         /\ i \in 0..(Len(W.res) - 1)
         /\ i \notin seen
         /\ W.res[i + 1].tag = "Empty"
         /\ ChainSound(W, W.res[i + 1].next, seen \cup {i})

\* C37: free-list integrity in the store.  The chain from first_empty visits
\* only Empty slots, no index twice, and ends in None; the as_empty unwrap of
\* allocation (line 161) never fails.
C37_FreeListSound ==
    /\ ChainSound(World, first_empty, {})
    /\ fault # "as_empty"

\* A load was given a slot from a free list of several slots: it took the
\* head, and the rest of the chain is still there.
C37_Witness ==
    /\ fault = "none"
    /\ ret.op = "load" /\ ret.result = "Ok" /\ ret.built
    /\ ret.id.generation >= 1
    /\ res[ret.id.idx + 1].tag = "File"
    /\ FreeList # {}

\* The chain of keys from o along Free(next) visits only Free entries of the
\* map, no index in seen or twice, and ends in None.
RECURSIVE MapChainSound(_, _, _)
MapChainSound(M, o, seen) ==
    IF ~IsSome(o) THEN TRUE
    ELSE LET i == Unwrap(o).idx IN
         /\ i \in 0..(Len(M.values) - 1)
         /\ i \notin seen
         /\ M.values[i + 1].tag = "Free"
         /\ MapChainSound(M, M.values[i + 1].next, seen \cup {i})

\* C38: free-list integrity in SlotMap.  After any sequence of insert and
\* remove calls, remove of a free entry or of an index out of range included,
\* the chain from the free head visits only Free entries and no index twice,
\* and insert never reaches the "invalid free list!" panic.
C38_MapFreeListSound ==
    /\ MapChainSound(Map, free, {})
    /\ fault # "invalid free list"

\* Entries to which the chain from the free head leads.
RECURSIVE MapChain(_, _, _)
MapChain(M, o, fuel) ==
    IF ~IsSome(o) \/ fuel = 0 THEN {}
    ELSE {Unwrap(o).idx} \cup MapChain(M, M.values[Unwrap(o).idx + 1].next, fuel - 1)

\* remove has just been called on an entry that was already free, or on an
\* index past the arena, while the free list held two entries.
C38_Witness ==
    /\ fault = "none"
    /\ call.op = "remove" /\ call.result = "None"
    /\ \/ call.key.idx >= Len(values)
       \/ values[call.key.idx + 1].tag = "Free"
    /\ Cardinality(MapChain(Map, free, Len(values))) = 2

=============================================================================
